---- MODULE Spec2Model ----
(***************************************************************************)
(* grpcping: the echo responder (pingSrv.Ping), the skew/RTT client loop   *)
(* (pingClientCall), the health-check client loop (grpcHealthCheck) and    *)
(* the mode dispatch (grpcClient) of pingsrv.go.                           *)
(*                                                                         *)
(* Times are nanosecond clock readings (time.Now().UnixNano()), counted    *)
(* from an epoch shortly before the run.  A sample handed to a histogram   *)
(* is the quotient ns/1000 in microseconds, kept exactly as whole          *)
(* microseconds plus thousandths.  The build modelled is a 64-bit one, in  *)
(* which the conversion of the -n flag to int keeps the flag's value.      *)
(***************************************************************************)
EXTENDS Integers, Sequences, FiniteSets

VARIABLES
    count,          \* *exactlyFlag, the requested number of iterations
    doHealth,       \* *doHealthFlag
    payload,        \* *payloadFlag
    env,            \* the network and clocks of this run: latencies, gaps, clock steps
    pc,             \* position of the client
    conn,           \* the connection of fgrpc.Dial
    n,              \* parameter n of pingClientCall / grpcHealthCheck
    i,              \* loop variable
    msg,            \* *msg of pingClientCall
    t1a, t2a, t1b,  \* locals of pingClientCall that live across a call
    start,          \* local start of grpcHealthCheck (monotonic reading)
    skewHistogram,  \* samples recorded into skewHistogram, in order
    rttHistogram,   \* samples recorded into rttHistogram, in order
    statuses,       \* map status -> count of grpcHealthCheck
    errAt,          \* which log.Fatalf ended the run
    wire,           \* calls sent and not yet returned to the client code
    nextId,         \* identity of the next call
    sent,           \* every PingMessage handed to cli.Ping, in order
    outcome,        \* "ok" or "err" of every call that has returned, in order
    clientClock,    \* wall clock of the client host
    serverClock,    \* wall clock of the responder host
    mono,           \* monotonic clock of the client host
    wentBack,       \* the wall clocks that were ever stepped backwards
    pending,        \* clock steps (NTP corrections) still to happen in this run
    readings,       \* t1a, t2a, t3a, t1b, t2b of every completed iteration, in order
    transit,        \* per call, in order: gap before the send, outbound and return latency
    srvHeap,        \* the PingMessages the responder's handlers hold, by address
    srvCalls        \* the responder's concurrent Ping invocations, statement by statement

vars == << count, doHealth, payload, env, pc, conn, n, i, msg, t1a, t2a, t1b,
           start, skewHistogram, rttHistogram, statuses, errAt, wire, nextId,
           sent, outcome, clientClock, serverClock, mono, wentBack, pending,
           readings, transit, srvHeap, srvCalls >>

----------------------------------------------------------------------------
(* Bounds of the model *)

\* largest requested iteration count, explored on a steady network
MaxCount == 5
\* largest requested iteration count explored on a network with jitter
MaxJitterCount == 1

Counts == -1 .. MaxCount
Payloads == {"", "abc"}
\* one-way latencies in ns; 5000000 ns = 5 ms
Latencies == {1, 2, 5000000}
\* responder clock minus client clock at the start of the run, in ns
Offsets == {-40, -2, 0, 7}
\* reading of the client clock when the run starts
ClientEpochs == {1000}
Statuses == {"UNKNOWN", "SERVING", "NOT_SERVING"}

\* a clock step: which wall clock, and by how many ns
ClockSteps == { <<"client", -4>>, <<"server", -4>>, <<"server", 3>> }

SteadyEnvs == { [lats |-> {l}, gaps |-> {0}, steps |-> {}] : l \in Latencies }
JitterEnvs == { [lats |-> {1, 2}, gaps |-> {0, 1}, steps |-> {s}] : s \in ClockSteps }

Steady == Cardinality(env.lats) = 1 /\ env.gaps = {0} /\ env.steps = {}

----------------------------------------------------------------------------
(* Values *)

\* fgrpc.PingMessage
PingMessage(seq, ts, pl) == [Seq |-> seq, Ts |-> ts, Payload |-> pl]
ZeroMessage == PingMessage(0, 0, "")

\* largest number of concurrent invocations of the responder
MaxSrvCalls == 2
\* how far the responder's clock advances while they run
MaxSrvTicks == 2
\* requests that reach the responder
SrvRequests == { [Seq |-> 1, Ts |-> t, Payload |-> p] : t \in {0, 1001}, p \in Payloads }
SrvEpoch == CHOOSE e \in ClientEpochs : TRUE

\* Go's integer division truncates toward zero
GoDiv(a, b) == IF a >= 0 THEN a \div b ELSE -((-a) \div b)

\* a sample recorded in ns, the division by 1000 forgotten
UsecNoScale(ns) == [whole |-> ns, frac |-> 0]

\* float64(ns) / 1000. : the sample in microseconds
Usec(ns) == [whole |-> ns \div 1000, frac |-> ns % 1000]

\* stats.Histogram.Record
Record(h, v) == Append(h, v)

Running == pc \in {"Ping0", "loop", "Ping1", "Ping2", "hloop", "Check"}

----------------------------------------------------------------------------
(* The transport: one synchronous call at a time goes through these stages *)

NewCall(kind, m) ==
    [id |-> nextId, kind |-> kind, stage |-> "sent", req |-> m,
     resp |-> ZeroMessage, status |-> "UNKNOWN"]

\* a call that does not block until its reply is there
ReturnedAtOnce(c) == TRUE

\* the blocking cli.Ping / cli.Check returns when the reply or the error is there
Returned(c) == c.stage \in {"returned", "failed"}

\* time passes: every clock advances by e
Elapse(e) ==
    /\ clientClock' = clientClock + e
    /\ serverClock' = serverClock + e
    /\ mono' = mono + e

client == << count, doHealth, payload, env, pc, conn, n, i, msg, t1a, t2a, t1b,
             start, skewHistogram, rttHistogram, statuses, errAt, nextId, sent,
             readings, srvHeap, srvCalls >>

\* the request reaches the responder after the outbound latency
Deliver(c) ==
    /\ c.stage = "sent"
    /\ \E u \in env.lats : Elapse(u) /\ transit' = Append(transit, u)
    /\ wire' = (wire \ {c}) \cup {[c EXCEPT !.stage = "arrived"]}
    /\ UNCHANGED << client, outcome, wentBack, pending >>

\* a responder that echoes the incoming timestamp
PingOutEcho(in, now) == in

\* pingSrv.Ping: out := *in; out.Ts = time.Now().UnixNano()
\* a responder that stamps the response and drops the payload
PingOutNoPayload(in, now) == [in EXCEPT !.Ts = now, !.Payload = ""]

PingOut(in, now) == [in EXCEPT !.Ts = now]

Ping(c) ==
    /\ c.stage = "arrived" /\ c.kind = "Ping"
    /\ wire' = (wire \ {c}) \cup
               {[c EXCEPT !.stage = "replied", !.resp = PingOut(c.req, serverClock)]}
    /\ UNCHANGED << client, outcome, clientClock, serverClock, mono, wentBack, pending,
                    transit >>

\* the health server answers a Check with a serving status
Check(c) ==
    /\ c.stage = "arrived" /\ c.kind = "Check"
    /\ \E st \in Statuses :
          wire' = (wire \ {c}) \cup {[c EXCEPT !.stage = "replied", !.status = st]}
    /\ UNCHANGED << client, outcome, clientClock, serverClock, mono, wentBack, pending,
                    transit >>

\* the response reaches the client after the return latency
Return(c) ==
    /\ c.stage = "replied"
    /\ \E d \in env.lats : Elapse(d) /\ transit' = Append(transit, d)
    /\ wire' = (wire \ {c}) \cup {[c EXCEPT !.stage = "returned"]}
    /\ outcome' = Append(outcome, "ok")
    /\ UNCHANGED << client, wentBack, pending >>

\* a transport failure: the call returns an error and no response
CallFails(c) ==
    /\ c.stage \in {"sent", "arrived", "replied"}
    /\ \E e \in env.lats : Elapse(e)
    /\ wire' = (wire \ {c}) \cup
               {[c EXCEPT !.stage = "failed", !.resp = ZeroMessage, !.status = "UNKNOWN"]}
    /\ outcome' = Append(outcome, "err")
    /\ UNCHANGED << client, wentBack, pending, transit >>

\* a wall clock is stepped (time.Now().UnixNano() is not monotonic)
ClockStep(s) ==
    /\ Running
    /\ pending' = pending \ {s}
    /\ clientClock' = IF s[1] = "client" THEN clientClock + s[2] ELSE clientClock
    /\ serverClock' = IF s[1] = "server" THEN serverClock + s[2] ELSE serverClock
    /\ wentBack' = IF s[2] < 0 THEN wentBack \cup {s[1]} ELSE wentBack
    /\ UNCHANGED << client, wire, outcome, mono, transit >>

----------------------------------------------------------------------------
(* The client *)

\* cli.Ping(ctx, m); g is the client-side gap since the clock reading before it
\* (before the warm-up and the first call of an iteration the time from the
\* reading to the wire counts as outbound latency)
SendPing(w, m, g) ==
    /\ wire' = w \cup {NewCall("Ping", m)}
    /\ nextId' = nextId + 1
    /\ sent' = Append(sent, m)
    /\ transit' = Append(transit, g)
    /\ Elapse(g)

\* a coercion that lets a count of 0 through
CoerceNegative(c) == IF c < 0 THEN 1 ELSE c

\* lines 156-159: the coercion of a non-positive count
Coerce(c) == IF c <= 0 THEN 1 ELSE c

\* grpcClient, lines 156-165
GrpcClient ==
    /\ pc = "start"
    /\ n' = Coerce(count)
    /\ pc' = IF doHealth THEN "hdial" ELSE "dial"
    /\ UNCHANGED << count, doHealth, payload, env, conn, i, msg, t1a, t2a, t1b, start,
                    skewHistogram, rttHistogram, statuses, errAt, wire, nextId, sent,
                    outcome, clientClock, serverClock, mono, wentBack, pending, readings, transit,
                    srvHeap, srvCalls >>

\* pingClientCall, lines 80-87: Dial, build msg, send the warm-up call
PingDial ==
    /\ pc = "dial"
    /\ \/ /\ conn' = "open"
          /\ msg' = PingMessage(0, 0, payload)
          /\ SendPing(wire, msg', 0)
          /\ pc' = "Ping0"
       \/ /\ pc' = "exit"
          /\ UNCHANGED << conn, msg, wire, nextId, sent, clientClock, serverClock, mono,
                          transit >>
    /\ UNCHANGED << count, doHealth, payload, env, n, i, t1a, t2a, t1b, start,
                    skewHistogram, rttHistogram, statuses, errAt, outcome,
                    wentBack, pending, readings,
                    srvHeap, srvCalls >>

\* a warm-up whose error is ignored
Ping0ErrIgnored(c) ==
    /\ c.stage = "failed"
    /\ skewHistogram' = << >>
    /\ rttHistogram' = << >>
    /\ i' = 1
    /\ pc' = "loop"
    /\ UNCHANGED errAt

\* lines 88-90: the warm-up call failed
Ping0Err(c) ==
    /\ c.stage = "failed"
    /\ pc' = "fatal" /\ errAt' = "Ping0"
    /\ UNCHANGED << i, skewHistogram, rttHistogram,
                    srvHeap, srvCalls >>

\* lines 91-93: the warm-up call succeeded; its result is discarded
Ping0Ok(c) ==
    /\ c.stage # "failed"
    /\ skewHistogram' = << >>
    /\ rttHistogram' = << >>
    /\ i' = 1
    /\ pc' = "loop"
    /\ UNCHANGED errAt

\* lines 87-93: the warm-up call returns
RecvPing0(c) ==
    /\ pc = "Ping0" /\ Returned(c)
    /\ wire' = wire \ {c}
    /\ (Ping0Err(c) \/ Ping0Ok(c))
    /\ UNCHANGED << count, doHealth, payload, env, conn, n, msg, t1a, t2a, t1b, start,
                    statuses, nextId, sent, outcome, clientClock, serverClock, mono,
                    wentBack, pending, readings, transit,
                    srvHeap, srvCalls >>

\* lines 93-97: the loop test, msg.Seq, t1a, msg.Ts and the first call
LoopBegin ==
    /\ pc = "loop" /\ i <= n
    /\ t1a' = clientClock
    /\ msg' = [msg EXCEPT !.Seq = i, !.Ts = clientClock]
    /\ SendPing(wire, msg', 0)
    /\ pc' = "Ping1"
    /\ UNCHANGED << count, doHealth, payload, env, conn, n, i, t2a, t1b, start,
                    skewHistogram, rttHistogram, statuses, errAt, outcome,
                    wentBack, pending, readings,
                    srvHeap, srvCalls >>

\* lines 93, 123-124: the loop ends and the histograms are printed
LoopEnd ==
    /\ pc = "loop" /\ i > n
    /\ pc' = "done"
    /\ UNCHANGED << count, doHealth, payload, env, conn, n, i, msg, t1a, t2a, t1b, start,
                    skewHistogram, rttHistogram, statuses, errAt, wire, nextId, sent,
                    outcome, clientClock, serverClock, mono, wentBack, pending, readings, transit,
                    srvHeap, srvCalls >>

\* a second call stamped with a fresh client time
Ping2MsgFresh(m, now) == [m EXCEPT !.Ts = now]

\* line 103: the message of the second call is msg, as the first call sent it
Ping2Msg(m, now) == m

\* lines 99-101: the first call failed
Ping1Err(c) ==
    /\ c.stage = "failed"
    /\ pc' = "fatal" /\ errAt' = "Ping1"
    /\ wire' = wire \ {c}
    /\ UNCHANGED << t1b, nextId, sent, clientClock, serverClock, mono, transit,
                    srvHeap, srvCalls >>

\* lines 102-103: t1b and the second call
Ping1Ok(c) ==
    /\ c.stage # "failed"
    /\ t1b' = c.resp.Ts
    /\ \E g \in env.gaps : SendPing(wire \ {c}, Ping2Msg(msg, clientClock), g)
    /\ pc' = "Ping2"
    /\ UNCHANGED errAt

\* lines 97-103: the first call returns and t2a is read
RecvPing1(c) ==
    /\ pc = "Ping1" /\ Returned(c)
    /\ t2a' = clientClock
    /\ (Ping1Err(c) \/ Ping1Ok(c))
    /\ UNCHANGED << count, doHealth, payload, env, conn, n, i, msg, t1a, start,
                    skewHistogram, rttHistogram, statuses, outcome, wentBack, pending,
                    readings,
                    srvHeap, srvCalls >>

\* lines 109-117: the arithmetic of one iteration
Rt1(a1, a2) == a2 - a1
Rt2(a2, a3) == a3 - a2
\* the responder's two readings subtracted the wrong way round
RtRSwapped(b1, b2) == b1 - b2
RtR(b1, b2) == b2 - b1
\* a midpoint that adds the whole responder interval instead of half of it
MidRNoHalf(b1, b2) == b1 + RtR(b1, b2)
\* a midpoint that rounds the half towards minus infinity
MidRFloor(b1, b2) == b1 + (RtR(b1, b2) \div 2)
MidR(b1, b2) == b1 + GoDiv(RtR(b1, b2), 2)
AvgRtt(a1, a2, a3, b1, b2) == GoDiv(Rt1(a1, a2) + Rt2(a2, a3) + RtR(b1, b2), 3)
\* a skew estimate taken from the first responder timestamp alone
SkewNoMid(a2, b1, b2) == b1 - a2
Skew(a2, b1, b2) == MidR(b1, b2) - a2

\* an iteration that records only the two client-side RTT samples
RecordRttsTwo(h, a1, a2, a3, b1, b2) ==
    Record(Record(h, Usec(Rt1(a1, a2))), Usec(Rt2(a2, a3)))

\* lines 110-114: the three RTT samples of one iteration
RecordRtts(h, a1, a2, a3, b1, b2) ==
    Record(Record(Record(h, Usec(Rt1(a1, a2))), Usec(Rt2(a2, a3))), Usec(RtR(b1, b2)))

\* a skew sample that also depends on what the histogram already holds
RecordSkewDrift(h, a2, b1, b2) == Record(h, Usec(Skew(a2, b1, b2) + Len(h)))

\* line 120
RecordSkew(h, a2, b1, b2) == Record(h, Usec(Skew(a2, b1, b2)))

\* a loop that records rtt1 as soon as it is known, before the second call is checked
Ping2ErrRecordsRt1(c) ==
    /\ c.stage = "failed"
    /\ rttHistogram' = Record(rttHistogram, Usec(Rt1(t1a, t2a)))
    /\ pc' = "panic"
    /\ UNCHANGED << i, msg, skewHistogram, readings,
                    srvHeap, srvCalls >>

\* lines 103-105: the second call failed; res2 is nil and line 105 reads res2.Ts
\* before line 106 tests err
Ping2Err(c) ==
    /\ c.stage = "failed"
    /\ pc' = "panic"
    /\ UNCHANGED << i, msg, skewHistogram, rttHistogram, readings,
                    srvHeap, srvCalls >>

\* lines 104-122: t3a, t2b, the samples, msg = res2, i++
Ping2Ok(c) ==
    /\ c.stage # "failed"
    /\ LET t3a == clientClock
           t2b == c.resp.Ts
       IN /\ rttHistogram' = RecordRtts(rttHistogram, t1a, t2a, t3a, t1b, t2b)
          /\ skewHistogram' = RecordSkew(skewHistogram, t2a, t1b, t2b)
          /\ readings' = Append(readings, [t1a |-> t1a, t2a |-> t2a, t3a |-> t3a,
                                           t1b |-> t1b, t2b |-> t2b])
    /\ msg' = c.resp
    /\ i' = i + 1
    /\ pc' = "loop"

\* lines 103-122: the second call returns
RecvPing2(c) ==
    /\ pc = "Ping2" /\ Returned(c)
    /\ wire' = wire \ {c}
    /\ (Ping2Err(c) \/ Ping2Ok(c))
    /\ UNCHANGED << count, doHealth, payload, env, conn, n, t1a, t2a, t1b, start,
                    statuses, errAt, nextId, sent, outcome, clientClock, serverClock,
                    mono, wentBack, pending, transit,
                    srvHeap, srvCalls >>

----------------------------------------------------------------------------
(* The health-check client *)

\* grpcHealthCheck, lines 128-135
HealthDial ==
    /\ pc = "hdial"
    /\ \/ /\ conn' = "open"
          /\ rttHistogram' = << >>
          /\ statuses' = [st \in Statuses |-> 0]
          /\ i' = 1
          /\ pc' = "hloop"
       \/ /\ pc' = "exit"
          /\ UNCHANGED << conn, rttHistogram, statuses, i >>
    /\ UNCHANGED << count, doHealth, payload, env, n, msg, t1a, t2a, t1b, start,
                    skewHistogram, errAt, wire, nextId, sent, outcome, clientClock,
                    serverClock, mono, wentBack, pending, readings, transit,
                    srvHeap, srvCalls >>

\* lines 137-139: start := time.Now() and the Check call
HealthBegin ==
    /\ pc = "hloop" /\ i <= n
    /\ start' = mono
    /\ wire' = wire \cup {NewCall("Check", ZeroMessage)}
    /\ nextId' = nextId + 1
    /\ transit' = Append(transit, 0)
    /\ pc' = "Check"
    /\ UNCHANGED << count, doHealth, payload, env, conn, n, i, msg, t1a, t2a, t1b,
                    skewHistogram, rttHistogram, statuses, errAt, sent, outcome,
                    clientClock, serverClock, mono, wentBack, pending, readings,
                    srvHeap, srvCalls >>

\* lines 137, 147-148
HealthEnd ==
    /\ pc = "hloop" /\ i > n
    /\ pc' = "done"
    /\ UNCHANGED << count, doHealth, payload, env, conn, n, i, msg, t1a, t2a, t1b, start,
                    skewHistogram, rttHistogram, statuses, errAt, wire, nextId, sent,
                    outcome, clientClock, serverClock, mono, wentBack, pending, readings, transit,
                    srvHeap, srvCalls >>

\* lines 141-143
\* a failed Check that is counted as a status all the same
CheckErrCounts(c) ==
    /\ c.stage = "failed"
    /\ pc' = "fatal" /\ errAt' = "Check"
    /\ statuses' = [statuses EXCEPT !["UNKNOWN"] = @ + 1]
    /\ UNCHANGED << i, rttHistogram,
                    srvHeap, srvCalls >>

CheckErr(c) ==
    /\ c.stage = "failed"
    /\ pc' = "fatal" /\ errAt' = "Check"
    /\ UNCHANGED << i, statuses, rttHistogram,
                    srvHeap, srvCalls >>

\* lines 140, 144-145: dur := time.Since(start), the status count and the sample
CheckOk(c) ==
    /\ c.stage # "failed"
    /\ statuses' = [statuses EXCEPT ![c.status] = @ + 1]
    /\ rttHistogram' = Record(rttHistogram, Usec(mono - start))
    /\ i' = i + 1
    /\ pc' = "hloop"
    /\ UNCHANGED errAt

\* lines 139-146: the Check call returns
RecvCheck(c) ==
    /\ pc = "Check" /\ Returned(c)
    /\ wire' = wire \ {c}
    /\ (CheckErr(c) \/ CheckOk(c))
    /\ UNCHANGED << count, doHealth, payload, env, conn, n, msg, t1a, t2a, t1b, start,
                    skewHistogram, nextId, sent, outcome, clientClock, serverClock,
                    mono, wentBack, pending, readings, transit,
                    srvHeap, srvCalls >>

----------------------------------------------------------------------------
(* The responder under concurrent calls: pingSrv.Ping statement by statement. *)
(* The transport runs every inbound call on its own goroutine (line 72); each  *)
(* call gets its own deserialized request.  pingSrv has no fields (lines       *)
(* 51-52), so the messages are the only memory a handler touches.              *)

SrvIds == 1 .. MaxSrvCalls

IdleCall == [pc |-> "idle", in |-> 0, out |-> 0, req |-> ZeroMessage, at |-> 0,
             resp |-> ZeroMessage]

\* everything but the responder's clock, its calls and their messages
clientSide == << count, doHealth, payload, env, pc, conn, n, i, msg, t1a, t2a, t1b,
                 start, skewHistogram, rttHistogram, statuses, errAt, wire, nextId,
                 sent, outcome, clientClock, mono, wentBack, pending, readings,
                 transit >>

\* line 54: the transport calls Ping with a pointer to the request it decoded
SrvCall(h) ==
    /\ srvCalls[h].pc = "idle"
    /\ \E r \in SrvRequests :
          /\ srvHeap' = Append(srvHeap, r)
          /\ srvCalls' = [srvCalls EXCEPT ![h] =
                             [@ EXCEPT !.pc = "called", !.in = Len(srvHeap) + 1, !.req = r]]
    /\ UNCHANGED << clientSide, serverClock >>

\* an out that is the request itself (out := in), not a copy of it
OutCellAlias(inAddr, fresh) == inAddr

\* line 56: out := *in makes out a new message
OutCell(inAddr, fresh) == fresh

\* lines 55-56: the request is logged and copied
SrvCopy(h) ==
    /\ srvCalls[h].pc = "called"
    /\ LET a == OutCell(srvCalls[h].in, Len(srvHeap) + 1)
       IN /\ srvHeap' = IF a > Len(srvHeap)
                          THEN Append(srvHeap, srvHeap[srvCalls[h].in])
                          ELSE srvHeap
          /\ srvCalls' = [srvCalls EXCEPT ![h] = [@ EXCEPT !.pc = "copied", !.out = a]]
    /\ UNCHANGED << clientSide, serverClock >>

\* line 57: out.Ts = time.Now().UnixNano()
SrvStamp(h) ==
    /\ srvCalls[h].pc = "copied"
    /\ srvHeap' = [srvHeap EXCEPT ![srvCalls[h].out] = PingOut(@, serverClock)]
    /\ srvCalls' = [srvCalls EXCEPT ![h] = [@ EXCEPT !.pc = "stamped", !.at = serverClock]]
    /\ UNCHANGED << clientSide, serverClock >>

\* line 58: return &out, nil; the transport encodes the message out points to
SrvReturn(h) ==
    /\ srvCalls[h].pc = "stamped"
    /\ srvCalls' = [srvCalls EXCEPT ![h] =
                       [@ EXCEPT !.pc = "returned", !.resp = srvHeap[srvCalls[h].out]]]
    /\ UNCHANGED << clientSide, serverClock, srvHeap >>

\* the responder's clock advances
SrvTick ==
    /\ serverClock < SrvEpoch + MaxSrvTicks
    /\ serverClock' = serverClock + 1
    /\ UNCHANGED << clientSide, srvHeap, srvCalls >>

----------------------------------------------------------------------------
(* The specification *)

\* the client before grpcClient runs, and a responder with no call in progress
Start ==
    /\ pc = "start"
    /\ conn = "none"
    /\ n = 0
    /\ i = 0
    /\ msg = ZeroMessage
    /\ t1a = 0 /\ t2a = 0 /\ t1b = 0
    /\ start = 0
    /\ skewHistogram = << >>
    /\ rttHistogram = << >>
    /\ statuses = [st \in Statuses |-> 0]
    /\ errAt = "none"
    /\ wire = {}
    /\ nextId = 0
    /\ sent = << >>
    /\ outcome = << >>
    /\ mono = 0
    /\ wentBack = {}
    /\ pending = env.steps
    /\ readings = << >>
    /\ transit = << >>
    /\ srvHeap = << >>
    /\ srvCalls = [h \in SrvIds |-> IdleCall]

Init ==
    /\ count \in Counts
    /\ doHealth \in BOOLEAN
    /\ payload \in Payloads
    /\ env \in SteadyEnvs \cup {e \in JitterEnvs : count \in 1 .. MaxJitterCount}
    /\ clientClock \in ClientEpochs
    /\ \E D \in Offsets : serverClock = clientClock + D
    /\ Start

Next ==
    \/ GrpcClient
    \/ PingDial
    \/ LoopBegin
    \/ LoopEnd
    \/ HealthDial
    \/ HealthBegin
    \/ HealthEnd
    \/ \E s \in pending : ClockStep(s)
    \/ \E c \in wire : Deliver(c)
    \/ \E c \in wire : Ping(c)
    \/ \E c \in wire : Check(c)
    \/ \E c \in wire : Return(c)
    \/ \E c \in wire : CallFails(c)
    \/ \E c \in wire : RecvPing0(c)
    \/ \E c \in wire : RecvPing1(c)
    \/ \E c \in wire : RecvPing2(c)
    \/ \E c \in wire : RecvCheck(c)

Spec == Init /\ [][Next]_vars

\* the responder alone, serving concurrent calls of clients that are not modelled
InitSrv ==
    /\ count = 1
    /\ doHealth = FALSE
    /\ payload = ""
    /\ env \in { e \in SteadyEnvs : e.lats = {1} }
    /\ clientClock = SrvEpoch
    /\ serverClock = SrvEpoch
    /\ Start

NextSrv ==
    \/ \E h \in SrvIds : SrvCall(h)
    \/ \E h \in SrvIds : SrvCopy(h)
    \/ \E h \in SrvIds : SrvStamp(h)
    \/ \E h \in SrvIds : SrvReturn(h)
    \/ SrvTick

SpecSrv == InitSrv /\ [][NextSrv]_vars

----------------------------------------------------------------------------
(* Properties of the responder and of the client loop *)

\* the responder-minus-client clock offset, and the one-way latency of a steady run
Offset == serverClock - clientClock
TheLatency == CHOOSE l \in env.lats : TRUE
PingMode == ~doHealth
\* the iteration a call belongs to: call 1 is the warm-up, calls 2j and 2j+1 are iteration j
IterOf(k) == k \div 2
Samples(h) == { h[k] : k \in DOMAIN h }
\* the ns a sample in microseconds stands for
Nanos(v) == v.whole * 1000 + v.frac
FirstErr == CHOOSE k \in DOMAIN outcome : outcome[k] = "err"
SomeErr == \E k \in DOMAIN outcome : outcome[k] = "err"

\* C1: every response the responder produces carries the payload and the sequence
\* of its request, and as timestamp the responder's clock reading at the moment of
\* handling, whatever timestamp the request carried.
C1_PingStampsOwnClock ==
    [][ \A c \in wire : \A r \in wire' :
          (c.id = r.id /\ c.kind = "Ping" /\ c.stage = "arrived" /\ r.stage = "replied")
             => /\ r.resp.Payload = c.req.Payload
                /\ r.resp.Seq = c.req.Seq
                /\ r.resp.Ts = serverClock
                /\ r.req = c.req ]_vars

\* a timed request has been answered: the request carried the client's time t1a,
\* the response carries the responder's clock
C1_Witness ==
    \E c \in wire :
       /\ c.kind = "Ping" /\ c.stage = "replied"
       /\ c.req.Seq >= 1 /\ c.req.Ts = t1a /\ c.req.Payload = "abc"
       /\ c.resp.Ts = serverClock /\ c.resp.Ts # c.req.Ts
       /\ c.resp.Payload = "abc" /\ c.resp.Seq = c.req.Seq

\* C2: on a steady run (clock offset constant D, every one-way latency the same L,
\* no client-side gap between the two calls) every skew sample recorded is D
\* (converted to microseconds like every sample), whatever L is; so it is 0 when
\* D = 0.
C2_SkewIsOffset ==
    (PingMode /\ Steady) => \A k \in DOMAIN skewHistogram : Nanos(skewHistogram[k]) = Offset

C2_Witness ==
    /\ PingMode /\ Steady /\ pc = "done"
    /\ Offset = -40 /\ TheLatency = 2
    /\ n = 3 /\ Len(skewHistogram) = 3
    /\ \A k \in 1 .. 3 : Nanos(skewHistogram[k]) = -40

\* C3: on a steady run with synchronized clocks every RTT sample is 2L; the run of
\* 3 iterations with L = 5 ms ends with exactly 9 RTT samples of 10000 us and
\* 3 skew samples of 0 us.
C3_RttIsTwiceLatency ==
    (PingMode /\ Steady /\ Offset = 0) =>
       /\ \A k \in DOMAIN rttHistogram : Nanos(rttHistogram[k]) = 2 * TheLatency
       /\ (pc = "done" /\ n = 3 /\ TheLatency = 5000000) =>
             /\ Len(rttHistogram) = 9
             /\ \A k \in 1 .. 9 : rttHistogram[k] = [whole |-> 10000, frac |-> 0]
             /\ Len(skewHistogram) = 3
             /\ \A k \in 1 .. 3 : skewHistogram[k] = [whole |-> 0, frac |-> 0]

C3_Witness ==
    /\ PingMode /\ Steady /\ Offset = 0 /\ TheLatency = 5000000
    /\ pc = "done" /\ n = 3
    /\ Len(rttHistogram) = 9 /\ Len(skewHistogram) = 3

\* C4: when a timed call (call number k >= 2, of iteration k div 2) fails, no
\* further call is sent and the samples are those of the complete iterations before
\* it: 3 (k div 2 - 1) RTT samples and k div 2 - 1 skew samples, in every state from
\* the failure on; the run ends aborted.  A failure in iteration 2 of 5 leaves
\* 3 RTT samples and 1 skew sample.
C4_AbortOnTimedFailure ==
    (PingMode /\ SomeErr /\ FirstErr >= 2) =>
       /\ Len(sent) = FirstErr
       /\ Len(outcome) = FirstErr
       /\ Len(rttHistogram) = 3 * (IterOf(FirstErr) - 1)
       /\ Len(skewHistogram) = IterOf(FirstErr) - 1
       /\ i = IterOf(FirstErr)
       /\ (wire = {} => pc \in {"fatal", "panic"})
       /\ (n = 5 /\ i = 2) => (Len(rttHistogram) = 3 /\ Len(skewHistogram) = 1)

\* the second call of iteration 2 of 5 has failed and the run has ended
C4_Witness ==
    /\ PingMode /\ n = 5 /\ i = 2
    /\ SomeErr /\ FirstErr = 5
    /\ pc = "panic"
    /\ Len(rttHistogram) = 3 /\ Len(skewHistogram) = 1

\* C5: in every state of a ping run (the states in which the client waits for a
\* call, tests the loop condition or has ended; lines 109-121 run without a
\* blocking point in between) the RTT samples number 3 times the completed
\* iterations and the skew samples number the completed iterations; a run of n
\* iterations without failure ends with 3n and n.
Completed == IF i = 0 THEN 0 ELSE i - 1

C5_SampleCounts ==
    PingMode =>
       /\ Len(rttHistogram) = 3 * Completed
       /\ Len(skewHistogram) = Completed
       /\ pc = "done" => (Len(rttHistogram) = 3 * n /\ Len(skewHistogram) = n)

C5_Witness ==
    PingMode /\ pc = "done" /\ n = 4 /\ Len(rttHistogram) = 12 /\ Len(skewHistogram) = 4

\* C6: a requested count of zero or less runs as n = 1 (a run that meets no failure
\* then sends the warm-up and the two calls of one iteration and ends with 3 RTT
\* samples and 1 skew sample); a positive count is passed on unchanged.
C6_CountCoercedToOne ==
    pc # "start" =>
       /\ count <= 0 => n = 1
       /\ count > 0 => n = count
       /\ (PingMode /\ count <= 0 /\ pc = "done") =>
             (Len(sent) = 3 /\ Len(rttHistogram) = 3 /\ Len(skewHistogram) = 1)

C6_Witness ==
    /\ PingMode /\ count = 0 /\ pc = "done" /\ n = 1
    /\ Len(sent) = 3 /\ Len(rttHistogram) = 3 /\ Len(skewHistogram) = 1

\* C7: the first ping of a run is the warm-up, with sequence 0, and it is the only
\* one with sequence 0; nothing is recorded before the first timed call returns;
\* if the warm-up fails, no timed call is ever sent and no sample recorded; a run
\* of n iterations without failure has sent 2n + 1 pings.
C7_OneWarmup ==
    PingMode =>
       /\ sent # << >> => sent[1] = PingMessage(0, 0, payload)
       /\ \A k \in 2 .. Len(sent) : sent[k].Seq >= 1
       /\ Len(sent) <= 2 => (rttHistogram = << >> /\ skewHistogram = << >>)
       /\ (outcome # << >> /\ outcome[1] = "err") =>
             (Len(sent) = 1 /\ rttHistogram = << >> /\ skewHistogram = << >>
                /\ (wire = {} => pc = "fatal" /\ errAt = "Ping0"))
       /\ pc = "done" => Len(sent) = 2 * n + 1

C7_Witness ==
    /\ PingMode /\ pc = "done" /\ n = 3
    /\ Len(sent) = 7 /\ sent[1].Seq = 0 /\ sent[2].Seq = 1

\* C8: as long as neither wall clock has gone backwards, every RTT sample computed
\* (rtt1, rtt2, rttR of every iteration) is >= 0, whatever the offset and the
\* latencies.
C8_RttNonNegative ==
    (PingMode /\ wentBack = {}) => \A k \in DOMAIN rttHistogram : rttHistogram[k].whole >= 0

\* an iteration under jitter, with the responder's clock stepped forward meanwhile
C8_Witness ==
    /\ PingMode /\ ~Steady /\ wentBack = {} /\ pending = {}
    /\ Len(rttHistogram) = 3
    /\ rttHistogram[1] # rttHistogram[2]

\* C9: the second call of iteration j sends the message of the first call of
\* iteration j unchanged: sequence j and timestamp t1a, not a fresh clock reading.
C9_SecondCallSameMessage ==
    PingMode =>
       /\ \A j \in 1 .. n : 2 * j + 1 <= Len(sent) =>
             (sent[2 * j + 1] = sent[2 * j] /\ sent[2 * j].Seq = j)
       /\ pc = "Ping2" =>
             (sent[Len(sent)].Ts = t1a /\ sent[Len(sent)].Seq = i /\ sent[Len(sent)] = msg)

\* the second call of iteration 2 is out, sent at a client time later than t1a
C9_Witness ==
    /\ PingMode /\ pc = "Ping2" /\ i = 2
    /\ t2a > t1a
    /\ sent[5].Ts = t1a /\ sent[5] = sent[4]

\* C10: the client is strictly sequential: at most one call is outstanding, and
\* the k-th call is sent only after the first k-1 calls have returned (so the
\* second call of an iteration follows the return of the first, and an iteration
\* begins after both calls of the one before have returned).
C10_OneCallAtATime ==
    /\ Cardinality(wire) <= 1
    /\ nextId - Len(outcome) <= 1
    /\ PingMode => Len(sent) - Len(outcome) \in {0, 1}
    /\ pc = "Ping2" => Len(outcome) >= 2 * i
    /\ pc = "Ping1" => Len(outcome) >= 2 * i - 1

C10_Witness ==
    /\ PingMode /\ pc = "Ping2" /\ i = 2
    /\ Len(sent) = 5 /\ Len(outcome) = 4
    /\ \E c \in wire : c.stage = "arrived"

\* the name pingClientCall gives the k-th call of a run in its error messages
CallName(k) == IF k = 1 THEN "Ping0" ELSE IF k % 2 = 0 THEN "Ping1" ELSE "Ping2"
\* the run of pingClientCall has ended, one way or another
Ended == pc \in {"done", "fatal", "panic"}

\* C11: an iteration whose responder timestamp did not advance past the previous
\* response's timestamp is set aside: no RTT and no skew sample is recorded for
\* it.  So every iteration that has samples in the histograms had a second response
\* stamped later than the first, and a first response stamped later than the second
\* response of the iteration before.
C11_StaleIterationNotRecorded ==
    PingMode =>
       \A j \in DOMAIN skewHistogram :
          /\ readings[j].t2b > readings[j].t1b
          /\ j > 1 => readings[j].t1b > readings[j - 1].t2b

\* C12: every failed call of pingClientCall ends the run in the reported error of
\* that call (Ping0 for the warm-up, Ping1 and Ping2 for the first and the second
\* call of an iteration); a failed second call is reported as Ping2, and its absent
\* response is never read.
C12_FailureReportedByCall ==
    (PingMode /\ SomeErr /\ wire = {}) =>
       /\ pc = "fatal"
       /\ errAt = CallName(FirstErr)

\* C13: the samples of a run are a function of the clock readings of that run and
\* of nothing else: the RTT samples are, iteration by iteration, t2a - t1a,
\* t3a - t2a and t2b - t1b, and the skew samples are what the five readings of the
\* iteration give, so two runs with the same readings record the same sequences.
C13_SamplesFromReadingsOnly ==
    PingMode =>
       /\ Len(skewHistogram) = Len(readings)
       /\ Len(rttHistogram) = 3 * Len(readings)
       /\ \A j \in DOMAIN readings :
             LET r == readings[j]
                 half == IF r.t2b >= r.t1b THEN (r.t2b - r.t1b) \div 2
                                           ELSE -((r.t1b - r.t2b) \div 2)
             IN /\ Nanos(rttHistogram[3 * j - 2]) = r.t2a - r.t1a
                /\ Nanos(rttHistogram[3 * j - 1]) = r.t3a - r.t2a
                /\ Nanos(rttHistogram[3 * j]) = r.t2b - r.t1b
                /\ Nanos(skewHistogram[j]) = r.t1b + half - r.t2a
                /\ rttHistogram[3 * j].frac \in 0 .. 999
                /\ skewHistogram[j].frac \in 0 .. 999

\* two iterations with the same five readings up to a shift in time have been
\* recorded one after the other, with the same samples
C13_Witness ==
    /\ PingMode /\ pc = "done" /\ n = 2 /\ Len(readings) = 2
    /\ readings[2].t2a - readings[2].t1a = readings[1].t2a - readings[1].t1a
    /\ readings[2].t2b - readings[2].t1b = readings[1].t2b - readings[1].t1b
    /\ readings[2].t1b - readings[2].t2a = readings[1].t1b - readings[1].t2a
    /\ skewHistogram[2] = skewHistogram[1]
    /\ rttHistogram[4] = rttHistogram[1] /\ rttHistogram[6] = rttHistogram[3]
    /\ Nanos(skewHistogram[1]) # 0

\* C14 as stated: while no clock has gone backwards, a response never carries the
\* timestamp of its request.
C14_RespTsDiffers ==
    [][ \A c \in wire : \A r \in wire' :
          (c.id = r.id /\ c.kind = "Ping" /\ c.stage = "arrived" /\ r.stage = "replied"
             /\ wentBack = {})
             => r.resp.Ts # c.req.Ts ]_vars

\* C14, amended: while no clock has gone backwards and the responder's clock is not
\* behind the requester's, a response never carries the timestamp of its request.
C14_RespTsDiffersNotBehind ==
    [][ \A c \in wire : \A r \in wire' :
          (c.id = r.id /\ c.kind = "Ping" /\ c.stage = "arrived" /\ r.stage = "replied"
             /\ wentBack = {} /\ serverClock >= clientClock)
             => r.resp.Ts # c.req.Ts ]_vars

\* a timed request stamped by the client has been answered by a responder whose
\* clock is ahead
C14_Witness ==
    \E c \in wire :
       /\ c.kind = "Ping" /\ c.stage = "replied" /\ wentBack = {}
       /\ Offset = 7 /\ c.req.Seq = 2 /\ c.req.Ts = t1a
       /\ c.resp.Ts > c.req.Ts

\* C15: when the run of pingClientCall has ended, normally or by abort, the channel
\* it opened has been closed.
C15_ChannelClosedAtEnd ==
    (PingMode /\ Ended) => conn = "closed"

\* C16: under every interleaving of concurrent Ping calls the request passed to a
\* call is left as it came in, every response is its own request with the clock
\* reading of its own handling as timestamp, and the message a call writes belongs
\* to that call alone: it is no other call's request and no other call's response.
C16_CallsDoNotInterfere ==
    /\ \A h \in SrvIds :
          /\ srvCalls[h].pc # "idle" => srvHeap[srvCalls[h].in] = srvCalls[h].req
          /\ srvCalls[h].pc = "returned" =>
                srvCalls[h].resp = [Seq |-> srvCalls[h].req.Seq, Ts |-> srvCalls[h].at,
                                    Payload |-> srvCalls[h].req.Payload]
    /\ \A h \in SrvIds : \A g \in SrvIds :
          (srvCalls[h].out # 0 /\ srvCalls[g].pc # "idle") =>
             /\ srvCalls[h].out # srvCalls[g].in
             /\ g # h => srvCalls[h].out # srvCalls[g].out

\* two calls with different requests were in progress together, were stamped at
\* different clock readings and have both returned
C16_Witness ==
    /\ srvCalls[1].pc = "returned" /\ srvCalls[2].pc = "returned"
    /\ srvCalls[1].in = 1 /\ srvCalls[2].in = 2
    /\ srvCalls[2].out < srvCalls[1].out
    /\ srvCalls[1].at > srvCalls[2].at
    /\ srvCalls[1].req.Payload # srvCalls[2].req.Payload
    /\ srvCalls[1].req.Ts = 1001 /\ srvCalls[1].resp.Ts = srvCalls[1].at

\* x / 2 in Go: the quotient is truncated toward zero
TruncHalf(x) == IF x >= 0 THEN x \div 2 ELSE -((-x) \div 2)

\* C17: the skew sample of every iteration is t1b + (t2b - t1b)/2 - t2a with the
\* division truncating toward zero, t1b and t2b being the responder timestamps of
\* the iteration's two responses and t2a the client time read after the first; so
\* iterations that agree on these three readings have the same skew sample,
\* whatever t1a, t3a and the average RTT are.
C17_SkewFromThreeReadings ==
    PingMode =>
       /\ \A j \in DOMAIN skewHistogram :
             Nanos(skewHistogram[j]) =
                readings[j].t1b + TruncHalf(readings[j].t2b - readings[j].t1b)
                   - readings[j].t2a
       /\ \A j \in DOMAIN skewHistogram : \A k \in DOMAIN skewHistogram :
             ( /\ readings[j].t1b - readings[j].t2a = readings[k].t1b - readings[k].t2a
               /\ readings[j].t2b - readings[j].t1b = readings[k].t2b - readings[k].t1b )
                => skewHistogram[j] = skewHistogram[k]

\* an iteration whose responder timestamps went back by an odd amount has been
\* recorded: the half of -1 is 0
C17_Witness ==
    /\ PingMode /\ pc = "done" /\ Len(skewHistogram) = 1
    /\ readings[1].t2b - readings[1].t1b = -1
    /\ readings[1].t3a - readings[1].t1a > 2
    /\ Nanos(skewHistogram[1]) = readings[1].t1b - readings[1].t2a

\* C18: the two requests of iteration j carry sequence j, every request and every
\* response of the run carries the payload given to the run, and the message an
\* iteration starts from is the second response of the iteration before.
C18_SeqAndPayloadCarried ==
    (PingMode /\ conn = "open") =>
       /\ \A k \in DOMAIN sent : sent[k].Payload = payload
       /\ \A j \in 1 .. n :
             /\ 2 * j <= Len(sent) => sent[2 * j].Seq = j
             /\ 2 * j + 1 <= Len(sent) => sent[2 * j + 1].Seq = j
       /\ \A c \in wire : c.stage \in {"replied", "returned"} => c.resp.Payload = payload
       /\ msg.Payload = payload
       /\ (pc = "loop" /\ i >= 2) =>
             (msg.Seq = i - 1 /\ msg.Ts = readings[i - 1].t2b)

\* the third iteration is about to start from the second response of the second
C18_Witness ==
    /\ PingMode /\ pc = "loop" /\ i = 3 /\ n >= 3 /\ payload = "abc"
    /\ Len(sent) = 5 /\ sent[4].Seq = 2 /\ sent[5].Seq = 2 /\ sent[5].Payload = "abc"
    /\ msg = [Seq |-> 2, Ts |-> readings[2].t2b, Payload |-> "abc"]

\* the return latency of the first call of iteration j, and the client-side gap
\* before and the outbound latency of its second call
D1(j) == transit[6 * j]
Gap2(j) == transit[6 * j + 1]
U2(j) == transit[6 * j + 2]
\* the clock offset has been the same since the run began
ConstantOffset == pending = env.steps

\* C19 as stated: with a constant offset D and no gap between the calls the skew
\* sample of an iteration is D + (d1 + u2)/2 - d1, and it is D exactly when
\* d1 = u2.
C19_SkewIsDExactlyWhenEqual ==
    (PingMode /\ ConstantOffset) =>
       \A j \in DOMAIN skewHistogram : Gap2(j) = 0 =>
          /\ Nanos(skewHistogram[j]) = Offset + ((D1(j) + U2(j)) \div 2) - D1(j)
          /\ Nanos(skewHistogram[j]) = Offset <=> D1(j) = U2(j)

\* C19, amended: with a constant offset D and no gap between the calls the skew
\* sample of an iteration is D + (d1 + u2)/2 - d1, and it is D exactly when
\* u2 = d1 or u2 = d1 + 1 (the division drops the odd nanosecond).
C19_SkewFromTwoLatencies ==
    (PingMode /\ ConstantOffset) =>
       \A j \in DOMAIN skewHistogram : Gap2(j) = 0 =>
          /\ Nanos(skewHistogram[j]) = Offset + ((D1(j) + U2(j)) \div 2) - D1(j)
          /\ Nanos(skewHistogram[j]) = Offset <=> U2(j) \in {D1(j), D1(j) + 1}

\* an iteration with asymmetric latencies: back in 2 ns, out in 1 ns, whatever the
\* other two latencies were; the sample is D - 1
C19_Witness ==
    /\ PingMode /\ ConstantOffset /\ ~Steady /\ pc = "done"
    /\ Len(skewHistogram) = 1 /\ Gap2(1) = 0
    /\ D1(1) = 2 /\ U2(1) = 1 /\ transit[5] = 1 /\ transit[9] = 2
    /\ Nanos(skewHistogram[1]) = Offset - 1

\* the calls of grpcHealthCheck that have completed
StatusTotal == statuses["UNKNOWN"] + statuses["SERVING"] + statuses["NOT_SERVING"]

\* C20: in health mode the latency samples and the status counts agree in number
\* at every moment, and once a call's result has been taken they are as many as
\* the calls that completed (so a failed call has added neither a sample nor a
\* count); there is never a skew sample.
C20_HealthCounts ==
    doHealth =>
       /\ Len(rttHistogram) = StatusTotal
       /\ Len(rttHistogram) = Completed
       /\ wire = {} =>
             Len(rttHistogram) = Cardinality({k \in DOMAIN outcome : outcome[k] = "ok"})
       /\ skewHistogram = << >>
       /\ pc = "done" => Len(rttHistogram) = n
       /\ pc = "fatal" => Len(rttHistogram) = Len(outcome) - 1

\* a health run aborted by its third call, two statuses seen before
C20_Witness ==
    /\ doHealth /\ pc = "fatal" /\ errAt = "Check" /\ wire = {}
    /\ outcome = << "ok", "ok", "err" >>
    /\ Len(rttHistogram) = 2
    /\ statuses["SERVING"] = 1 /\ statuses["NOT_SERVING"] = 1

====
